---- MODULE Spec2Model ----
(***************************************************************************)
(* The SSTable engine of store/sstable.go: construction of a table from a  *)
(* sorted batch (InitSSTableOnDisk, InitTableFiles, writeEntriesToSST) and *)
(* the point lookup Get with its sparse-index binary search.  Files are    *)
(* byte sequences, file handles carry their own cursor, and Get is split   *)
(* at every Seek and Read it performs on the shared data-file handle.      *)
(***************************************************************************)
EXTENDS Integers, Sequences, FiniteSets, TLC

VARIABLES
    entries,          \* the sorted batch handed to InitSSTableOnDisk
    sstTableCounter,  \* the process-wide table counter (uint32)
    bpc,              \* per constructing goroutine: its position in InitSSTableOnDisk
    tables,           \* per constructing goroutine: the SSTable it allocated
    initErr,          \* per constructing goroutine: what InitTableFiles returned
    writes,           \* per constructing goroutine: the file writes writeEntriesToSST attempted
    fds,              \* open-file table: handle -> [id, ext, pos, open]
    files,            \* the directory: <<table id, extension>> -> bytes
    get,              \* per calling goroutine: the frame of its Get call
    search            \* a stand-alone call of getCandidateByteOffsetIndex

vars == <<entries, sstTableCounter, bpc, tables, initErr, writes, fds, files, get, search>>

----------------------------------------------------------------------------
(* Bounds of the model. *)

\* Longest batch handed to a construction.
MaxRecords == 5

\* Every SparseIndexSampleSize-th record is sampled.  The source sets 1000
\* (sstable.go:21); the model scales it down so that batches of MaxRecords
\* records span several sparse entries.
SparseIndexSampleSize == 2

\* Longest sparse index handed to a stand-alone search.
MaxSparse == 3

\* Size of the fixed record header in bytes (the literal of sstable.go:181).
headerSize == 17

Builders == {1, 2}
Callers == {1, 2}

\* Keys "a", "ab", "b", "c", "d" and the probes "A" (below all) and "e" (above all).
Keys == {<<97>>, <<97, 98>>, <<98>>, <<99>>, <<100>>}
Probes == Keys \cup {<<65>>, <<101>>}

\* The keys of the sequential lookups: with them "ac", which the bloom filter of
\* the batch "a", "ab", "b" lets through.
ScanProbes == Probes \cup {<<97, 99>>}

Values == {<<>>, <<120, 121>>}

----------------------------------------------------------------------------
(* Machine integers and strings. *)

\* uint32 addition.  Every byte of the model is below 128, so every decoded 32-bit
\* field is below 2^31 and the sum of two of them is below 2^32: the addition never
\* wraps.  TLC's integers end at 2^31-1; a sum beyond that is only ever used as a
\* read length or a seek offset far past the end of the file, and is held at 2^31-1.
AddUint32(a, b) == IF a > 2147483647 - b THEN 2147483647 ELSE a + b

Min(a, b) == IF a < b THEN a ELSE b

\* strings.Compare and Go's <, ==, > on strings: bytewise lexicographic.
StrCompare(a, b) ==
    LET n == Min(Len(a), Len(b))
        d == {i \in 1..n : a[i] # b[i]}
    IN  IF d = {}
        THEN (IF Len(a) < Len(b) THEN -1 ELSE IF Len(a) > Len(b) THEN 1 ELSE 0)
        ELSE LET i == CHOOSE j \in d : \A k \in d : j <= k
             IN  IF a[i] < b[i] THEN -1 ELSE 1

StrLess(a, b) == StrCompare(a, b) < 0

\* Go slices are indexed from 0.
At(s, i) == s[i + 1]

RECURSIVE SumBytes(_)
SumBytes(s) == IF s = <<>> THEN 0 ELSE Head(s) + SumBytes(Tail(s))

----------------------------------------------------------------------------
(* Record codec (store/record.go): 17-byte little-endian header, key, value. *)

LE32(x) == <<x % 256, (x \div 256) % 256, (x \div 65536) % 256, (x \div 16777216) % 256>>

FromLE32(b) == b[1] + 256 * b[2] + 65536 * b[3] + 16777216 * b[4]

NewRecord(k, v) ==
    [Header |-> [CheckSum |-> (SumBytes(k) + SumBytes(v)) % 128, Tombstone |-> 0,
                 TimeStamp |-> 0, KeySize |-> Len(k), ValueSize |-> Len(v)],
     Key |-> k, Value |-> v, RecordSize |-> headerSize + Len(k) + Len(v)]

EncodeHeader(h) ==
    LE32(h.CheckSum) \o <<h.Tombstone>> \o LE32(h.TimeStamp) \o LE32(h.KeySize) \o LE32(h.ValueSize)

EncodeKV(r) == EncodeHeader(r.Header) \o r.Key \o r.Value

\* Decodes the first 17 bytes of b.
DecodeHeader(b) ==
    [CheckSum |-> FromLE32(SubSeq(b, 1, 4)), Tombstone |-> b[5],
     TimeStamp |-> FromLE32(SubSeq(b, 6, 9)), KeySize |-> FromLE32(SubSeq(b, 10, 13)),
     ValueSize |-> FromLE32(SubSeq(b, 14, 17))]

\* Decodes a whole record: the header, then KeySize key bytes and ValueSize value bytes
\* (as many of them as b holds).
DecodeKV(b) ==
    LET h == DecodeHeader(b)
        ke == Min(AddUint32(headerSize, h.KeySize), Len(b))
        ve == Min(AddUint32(headerSize, AddUint32(h.KeySize, h.ValueSize)), Len(b))
    IN  [Header |-> h, Key |-> SubSeq(b, headerSize + 1, ke), Value |-> SubSeq(b, ke + 1, ve),
         RecordSize |-> AddUint32(headerSize, AddUint32(h.KeySize, h.ValueSize))]

----------------------------------------------------------------------------
(* Bloom filter (store/bloom_filter.go): a bit array sized from the number  *)
(* of elements, BloomHashFuncs positions per key.                           *)

BloomBitsPerKey == 2
BloomHashFuncs == 2

NilBloom == [nil |-> TRUE, file |-> 0, bitSetSize |-> 0, bitSet |-> <<>>]

NewBloomFilter(file) == [nil |-> FALSE, file |-> file, bitSetSize |-> 0, bitSet |-> <<>>]

InitBloomFilterAttrs(bf, numElements) ==
    [bf EXCEPT !.bitSetSize = BloomBitsPerKey * numElements,
               !.bitSet = [i \in 1..(BloomBitsPerKey * numElements) |-> FALSE]]

\* The bit positions (from 0) of a key: double hashing over the bit array.
BloomPositions(bf, key) ==
    {(SumBytes(key) + i * (Len(key) + 2)) % bf.bitSetSize : i \in 0..(BloomHashFuncs - 1)}

Add(bf, key) ==
    [bf EXCEPT !.bitSet = [i \in 1..bf.bitSetSize |->
                              bf.bitSet[i] \/ (i - 1) \in BloomPositions(bf, key)]]

MightContain(bf, key) == \A p \in BloomPositions(bf, key) : At(bf.bitSet, p)

RECURSIVE AddAll(_, _)
AddAll(bf, rs) == IF rs = <<>> THEN bf ELSE AddAll(Add(bf, Head(rs).Key), Tail(rs))

\* One byte per bit position.
BloomBytes(bf) == [i \in 1..bf.bitSetSize |-> IF bf.bitSet[i] THEN 1 ELSE 0]

----------------------------------------------------------------------------
(* Files and handles (os.File, utils.WriteToFile). *)

FileName(sstCounter, ext) == <<sstCounter, ext>>

\* The three handles a construction may open: 1 data, 2 index, 3 bloom.
FdOf(g, k) == 3 * (g - 1) + k

Content(fs, name) == IF name \in DOMAIN fs THEN fs[name] ELSE <<>>

\* os.Create: the file exists and is empty afterwards; a fresh handle at position 0.
Create(st, fd, sstCounter, ext) ==
    [fds |-> (fd :> [id |-> sstCounter, ext |-> ext, pos |-> 0, open |-> TRUE]) @@ st.fds,
     files |-> (FileName(sstCounter, ext) :> <<>>) @@ st.files]

\* A faulty variant of Close: the handle stays open.
leaveOpen(st, fd) == st

Close(st, fd) == [st EXCEPT !.fds[fd].open = FALSE]

\* Bytes b written over content c at position p.
Overlay(c, p, b) ==
    [i \in 1..(IF Len(c) > p + Len(b) THEN Len(c) ELSE p + Len(b)) |->
        IF i > p /\ i <= p + Len(b) THEN b[i - p] ELSE IF i <= Len(c) THEN c[i] ELSE 0]

\* utils.WriteToFile: file.Write at the handle's cursor; a nil or closed handle is an
\* error and writes nothing.
WriteOk(st, fd) == fd # 0 /\ st.fds[fd].open

WriteToFile(st, b, fd) ==
    IF ~WriteOk(st, fd) THEN st
    ELSE LET h == st.fds[fd]
             name == FileName(h.id, h.ext)
         IN  [fds |-> [st.fds EXCEPT ![fd].pos = h.pos + Len(b)],
              files |-> [st.files EXCEPT ![name] = Overlay(st.files[name], h.pos, b)]]

----------------------------------------------------------------------------
(* Sparse index search. *)

\* The loop of getCandidateByteOffsetIndex; acc collects the indices subscripted.
RECURSIVE searchLoop(_, _, _, _, _)
searchLoop(sparseKeys, targetKey, low, high, acc) ==
    IF low <= high
    THEN LET mid == (low + high) \div 2
             cmp == StrCompare(targetKey, At(sparseKeys, mid).key)
         IN  IF cmp > 0 THEN searchLoop(sparseKeys, targetKey, mid + 1, high, acc \cup {mid})
             ELSE IF cmp < 0 THEN searchLoop(sparseKeys, targetKey, low, mid - 1, acc \cup {mid})
             ELSE [found |-> TRUE, low |-> mid, accessed |-> acc \cup {mid}]
    ELSE [found |-> FALSE, low |-> low, accessed |-> acc]

\* A faulty variant of fallThroughIndex: the insertion point instead of its predecessor.
fallThroughIndexLow(low) == low

\* The index returned after the loop ran out.
fallThroughIndex(low) == low - 1

\* getCandidateByteOffsetIndex: index is what it returns; accessed are the indices of
\* sparseKeys it subscripted; panicked when one of them is out of range (Go's
\* index-out-of-range panic), in which case nothing is returned.
getCandidateByteOffsetIndex(sparseKeys, targetKey) ==
    LET r == searchLoop(sparseKeys, targetKey, 0, Len(sparseKeys) - 1, {})
    IN  IF r.found
        THEN [index |-> r.low, accessed |-> r.accessed, panicked |-> FALSE]
        ELSE LET logged == r.low - 1   \* sparseKeys[low-1].byteOffset, an argument of LogCYAN
                 oob == logged < 0 \/ logged >= Len(sparseKeys)
             IN  [index |-> fallThroughIndex(r.low), accessed |-> r.accessed \cup {logged},
                  panicked |-> oob]

----------------------------------------------------------------------------
(* Construction: InitSSTableOnDisk, InitTableFiles, writeEntriesToSST. *)

RECURSIVE SortedKeys(_)
SortedKeys(S) ==
    IF S = {} THEN <<>>
    ELSE LET m == CHOOSE k \in S : \A o \in S : ~StrLess(o, k)
         IN  <<m>> \o SortedKeys(S \ {m})

\* The batches of at most n records over the keys K: non-empty, strictly ascending.
BatchesOver(K, n) ==
    UNION {{[i \in 1..Cardinality(S) |-> NewRecord(SortedKeys(S)[i], f[SortedKeys(S)[i]])] :
                f \in [S -> Values]} :
           S \in {T \in SUBSET K : T # {} /\ Cardinality(T) <= n}}

\* The batches a caller may hand over.
Batches == BatchesOver(Keys, MaxRecords)

EmptyTable(counter) ==
    [dataFile |-> 0, indexFile |-> 0, bloomFilter |-> NilBloom, sstCounter |-> counter,
     minKey |-> <<>>, maxKey |-> <<>>, sizeInBytes |-> 0, sparseKeys |-> <<>>]

\* A faulty variant of isSampled: the sample taken one record late.
isSampledShifted(i) == i % SparseIndexSampleSize = 1 % SparseIndexSampleSize /\ i > 0

\* A faulty variant of isSampled: every other sample left out.
isSampledHalf(i) == i % (2 * SparseIndexSampleSize) = 0

\* Whether record i (from 0) of the batch goes into the sparse index.
isSampled(i) == i % SparseIndexSampleSize = 0

\* A faulty variant of advanceOffset: the header's bytes left out of the count.
advanceOffsetBody(byteOffsetCounter, e) ==
    AddUint32(byteOffsetCounter, e.Header.KeySize + e.Header.ValueSize)

\* byteOffsetCounter += (*sortedEntries)[i].RecordSize
advanceOffset(byteOffsetCounter, e) == AddUint32(byteOffsetCounter, e.RecordSize)

\* The loop of writeEntriesToSST from record i on.
RECURSIVE writeLoop(_, _, _)
writeLoop(sortedEntries, i, acc) ==
    IF i >= Len(sortedEntries) THEN acc
    ELSE LET e == At(sortedEntries, i)
             sk == IF isSampled(i)
                   THEN Append(acc.sparseKeys, [keySize |-> e.Header.KeySize, key |-> e.Key,
                                                byteOffset |-> acc.byteOffsetCounter])
                   ELSE acc.sparseKeys
         IN  writeLoop(sortedEntries, i + 1,
                       [sizeInBytes |-> AddUint32(acc.sizeInBytes, e.RecordSize),
                        sparseKeys |-> sk,
                        byteOffsetCounter |-> advanceOffset(acc.byteOffsetCounter, e),
                        buf |-> acc.buf \o EncodeKV(e)])

RECURSIVE sparseIndexBytes(_)
sparseIndexBytes(indices) ==
    IF indices = <<>> THEN <<>>
    ELSE LE32(Head(indices).keySize) \o Head(indices).key \o LE32(Head(indices).byteOffset)
         \o sparseIndexBytes(Tail(indices))

\* A table whose three files were created and written.
Built(t) == bpc[t] = "done"

\* A panic ends the process.
Crashed == (\E g \in Builders : bpc[g] = "panicked") \/ (\E c \in Callers : get[c].pc = "panicked")

\* atomic.AddUint32(&sstTableCounter, 1)
AddCounter(g) ==
    /\ ~Crashed
    /\ bpc[g] = "start"
    /\ sstTableCounter' = AddUint32(sstTableCounter, 1)
    /\ bpc' = [bpc EXCEPT ![g] = "added"]
    /\ UNCHANGED <<entries, tables, initErr, writes, fds, files, get, search>>

\* A faulty variant of tableId: the value the counter had before the increment.
staleId(g) == sstTableCounter - 1

\* The id a new table takes: a plain read of the global.
tableId(g) == sstTableCounter

\* table := &SSTable{sstCounter: sstTableCounter}
NewTable(g) ==
    /\ ~Crashed
    /\ bpc[g] = "added"
    /\ tables' = [tables EXCEPT ![g] = EmptyTable(tableId(g))]
    /\ bpc' = [bpc EXCEPT ![g] = "init"]
    /\ UNCHANGED <<entries, sstTableCounter, initErr, writes, fds, files, get, search>>

CreateFailures == {"none", "mkdir", "data", "index", "bloom"}

\* table.InitTableFiles(directory), its error dropped by the caller.  fail names the
\* first of MkdirAll and the three os.Create calls to fail.
InitTableFiles(g, fail) ==
    /\ ~Crashed
    /\ bpc[g] = "init"
    /\ LET id == tables[g].sstCounter
           s0 == [fds |-> fds, files |-> files]
           s1 == Create(s0, FdOf(g, 1), id, "data")
           s2 == Create(s1, FdOf(g, 2), id, "index")
           s3 == Create(s2, FdOf(g, 3), id, "bloom")
           out == CASE fail = "mkdir" -> s0
                    [] fail = "data" -> s0
                    [] fail = "index" -> Close(s1, FdOf(g, 1))
                    [] fail = "bloom" -> Close(Close(s2, FdOf(g, 1)), FdOf(g, 2))
                    [] OTHER -> s3
       IN  /\ fds' = out.fds
           /\ files' = out.files
           /\ tables' = IF fail = "none"
                        THEN [tables EXCEPT ![g].dataFile = FdOf(g, 1),
                                            ![g].indexFile = FdOf(g, 2),
                                            ![g].bloomFilter = NewBloomFilter(FdOf(g, 3))]
                        ELSE tables
    /\ initErr' = [initErr EXCEPT ![g] = IF fail = "none" THEN "nil" ELSE fail]
    /\ bpc' = [bpc EXCEPT ![g] = "write"]
    /\ UNCHANGED <<entries, sstTableCounter, writes, get, search>>

\* What InitSSTableOnDisk hands its caller besides the table: it has no error result.
returnedErr(g) == "nil"

\* writeEntriesToSST(entries, table) and the return of the table.  A table whose
\* files were not created has nil handles: both writes fail and are only printed, and
\* InitBloomFilterAttrs dereferences the nil filter.
WriteEntries(g) ==
    /\ ~Crashed
    /\ bpc[g] = "write"
    /\ LET t == tables[g]
           r == writeLoop(entries, 0, [sizeInBytes |-> t.sizeInBytes, sparseKeys |-> t.sparseKeys,
                                       byteOffsetCounter |-> 0, buf |-> <<>>])
           t1 == [t EXCEPT !.minKey = At(entries, 0).Key,
                           !.maxKey = At(entries, Len(entries) - 1).Key,
                           !.sizeInBytes = r.sizeInBytes,
                           !.sparseKeys = r.sparseKeys]
           s0 == [fds |-> fds, files |-> files]
           s1 == WriteToFile(s0, r.buf, t.dataFile)
           s2 == WriteToFile(s1, sparseIndexBytes(r.sparseKeys), t.indexFile)
       IN  IF t.bloomFilter.nil
           THEN /\ tables' = [tables EXCEPT ![g] = t1]
                /\ fds' = s2.fds
                /\ files' = s2.files
                /\ writes' = [writes EXCEPT ![g] = @ \o <<"data", "index">>]
                /\ bpc' = [bpc EXCEPT ![g] = "panicked"]
           ELSE LET bf == AddAll(InitBloomFilterAttrs(t.bloomFilter, Len(entries)), entries)
                    s3 == WriteToFile(s2, BloomBytes(bf), bf.file)
                IN  /\ tables' = [tables EXCEPT ![g] = [t1 EXCEPT !.bloomFilter = bf]]
                    /\ fds' = s3.fds
                    /\ files' = s3.files
                    /\ writes' = [writes EXCEPT ![g] = @ \o <<"data", "index", "bloom">>]
                    /\ bpc' = [bpc EXCEPT ![g] = "done"]
    /\ UNCHANGED <<entries, sstTableCounter, initErr, get, search>>

----------------------------------------------------------------------------
(* Lookup: SSTable.Get, one action per Seek or Read on the data-file handle. *)

ErrKeyNotWithinTable == "ErrKeyNotWithinTable"
ErrKeyNotFound == "ErrKeyNotFound"

\* The value Get returns with a range rejection: "<!>".
RangeRejectValue == <<60, 33, 62>>

IdleFrame ==
    [pc |-> "idle", t |-> 0, key |-> <<>>, currOffset |-> 0, currEntry |-> <<>>,
     ret |-> [value |-> <<>>, err |-> "none"],
     \* history of the call: Seeks and Reads issued, cursor at entry, whether the
     \* sparse index was searched, keys decoded, and whether another call used the
     \* handle while this one was scanning
     ios |-> 0, pos0 |-> 0, searched |-> FALSE, scanned |-> <<>>, disturbed |-> FALSE]

Scanning == {"readHeader", "seekBody", "readBody", "seekNext"}

\* A faulty variant of outOfRange: the lower bound left unchecked.
outOfRangeAboveOnly(sst, key) == StrLess(sst.maxKey, key)

\* A faulty variant of outOfRange: the upper bound left unchecked.
outOfRangeBelowOnly(sst, key) == StrLess(key, sst.minKey)

\* key < sst.minKey || key > sst.maxKey
outOfRange(sst, key) == StrLess(key, sst.minKey) \/ StrLess(sst.maxKey, key)

\* A faulty variant of bloomRejects: the negation dropped.
bloomRejectsInverted(sst, key) == MightContain(sst.bloomFilter, key)

\* !sst.bloomFilter.MightContain(key)
bloomRejects(sst, key) == ~MightContain(sst.bloomFilter, key)

\* A faulty variant of seekStart: whence 1, relative to the cursor.
seekCurrent(cur, offset) == AddUint32(cur, offset)

\* The cursor after file.Seek(offset, 0) from cursor cur.
seekStart(cur, offset) == offset

\* A faulty variant of nextRecordOffset: the value bytes not skipped.
nextRecordOffsetKeyOnly(currOffset, h) == AddUint32(currOffset, h.KeySize)

\* currOffset += r.Header.KeySize + r.Header.ValueSize
nextRecordOffset(currOffset, h) == AddUint32(currOffset, AddUint32(h.KeySize, h.ValueSize))

\* io.ReadFull(file, buf) with len(buf) = n on content at cursor pos.
ReadFull(content, pos, n) ==
    LET avail == IF Len(content) > pos THEN Len(content) - pos ELSE 0
        m == Min(n, avail)
    IN  [bytes |-> SubSeq(content, pos + 1, pos + m), n |-> m,
         err |-> IF m = n THEN "nil" ELSE IF m = 0 THEN "EOF" ELSE "ErrUnexpectedEOF"]

\* buf of length n holding the bytes read, zero elsewhere.
Filled(bytes, n) == [i \in 1..n |-> IF i <= Len(bytes) THEN bytes[i] ELSE 0]

DataFd(c) == tables[get[c].t].dataFile

DataContent(fd) == Content(files, FileName(fds[fd].id, fds[fd].ext))

\* The frame of a call that returned.
Return(f, value, err) ==
    [f EXCEPT !.pc = "done", !.ret = [value |-> value, err |-> err],
              !.currOffset = 0, !.currEntry = <<>>]

\* The frames after caller c moved to frame f; usesFile says the step touched the
\* data-file handle of table t, which every other call scanning t then observes.
Frames(c, f, t, usesFile) ==
    [d \in Callers |->
        IF d = c THEN f
        ELSE IF usesFile /\ get[d].t = t /\ get[d].pc \in Scanning
             THEN [get[d] EXCEPT !.disturbed = TRUE]
             ELSE get[d]]

\* Lines 160-174: range check, bloom check, candidate lookup, first Seek.
GetBegin(c, t, key) ==
    /\ ~Crashed
    /\ get[c].pc \in {"idle", "done"}
    /\ bpc[t] = "done"
    /\ LET sst == tables[t]
           fd == sst.dataFile
           f0 == [IdleFrame EXCEPT !.t = t, !.key = key, !.pos0 = fds[fd].pos]
       IN  IF outOfRange(sst, key)
           THEN /\ get' = Frames(c, Return(f0, RangeRejectValue, ErrKeyNotWithinTable), t, FALSE)
                /\ fds' = fds
           ELSE IF bloomRejects(sst, key)
           THEN /\ get' = Frames(c, Return(f0, <<>>, ErrKeyNotWithinTable), t, FALSE)
                /\ fds' = fds
           ELSE LET cand == getCandidateByteOffsetIndex(sst.sparseKeys, key)
                IN  IF cand.panicked
                    THEN /\ get' = Frames(c, [f0 EXCEPT !.pc = "panicked", !.searched = TRUE], t, FALSE)
                         /\ fds' = fds
                    ELSE LET off == At(sst.sparseKeys, cand.index).byteOffset
                         IN  /\ get' = Frames(c, [f0 EXCEPT !.pc = "readHeader", !.searched = TRUE,
                                                            !.currOffset = off, !.ios = 1], t, TRUE)
                             /\ fds' = [fds EXCEPT ![fd].pos = seekStart(@, off)]
    /\ UNCHANGED <<entries, sstTableCounter, bpc, tables, initErr, writes, files, search>>

\* Lines 179-189: read the 17 header bytes at the cursor; only a read of zero bytes
\* (io.EOF) returns, a short read (io.ErrUnexpectedEOF) goes on with the partial buffer.
ReadHeader(c) ==
    /\ ~Crashed
    /\ get[c].pc = "readHeader"
    /\ LET f == get[c]
           fd == DataFd(c)
           rd == ReadFull(DataContent(fd), fds[fd].pos, 17)
       IN  /\ fds' = [fds EXCEPT ![fd].pos = @ + rd.n]
           /\ get' = Frames(c, IF rd.err = "EOF"
                               THEN Return([f EXCEPT !.ios = @ + 1], <<>>, "EOF")
                               ELSE [f EXCEPT !.pc = "seekBody", !.ios = @ + 1,
                                              !.currEntry = Filled(rd.bytes, 17)],
                           f.t, TRUE)
    /\ UNCHANGED <<entries, sstTableCounter, bpc, tables, initErr, writes, files, search>>

\* Lines 192-193: currOffset += headerSize; Seek.
SeekBody(c) ==
    /\ ~Crashed
    /\ get[c].pc = "seekBody"
    /\ LET f == get[c]
           fd == DataFd(c)
           off == AddUint32(f.currOffset, headerSize)
       IN  /\ fds' = [fds EXCEPT ![fd].pos = seekStart(@, off)]
           /\ get' = Frames(c, [f EXCEPT !.pc = "readBody", !.ios = @ + 1, !.currOffset = off],
                           f.t, TRUE)
    /\ UNCHANGED <<entries, sstTableCounter, bpc, tables, initErr, writes, files, search>>

\* Lines 195-216: read KeySize+ValueSize bytes, decode, compare.
ReadBody(c) ==
    /\ ~Crashed
    /\ get[c].pc = "readBody"
    /\ LET f == get[c]
           fd == DataFd(c)
           h == DecodeHeader(f.currEntry)
           rd == ReadFull(DataContent(fd), fds[fd].pos, AddUint32(h.KeySize, h.ValueSize))
           r == DecodeKV(f.currEntry \o rd.bytes)
           f1 == [f EXCEPT !.ios = @ + 1]
           f2 == [f1 EXCEPT !.scanned = Append(@, r.Key)]
       IN  /\ fds' = [fds EXCEPT ![fd].pos = @ + rd.n]
           /\ get' = Frames(c, IF rd.err # "nil" THEN Return(f1, <<>>, rd.err)
                               ELSE IF r.Key = f.key THEN Return(f2, r.Value, "nil")
                               ELSE IF StrLess(f.key, r.Key)
                                    THEN Return(f2, <<>>, ErrKeyNotWithinTable)
                               ELSE [f2 EXCEPT !.pc = "seekNext"],
                           f.t, TRUE)
    /\ UNCHANGED <<entries, sstTableCounter, bpc, tables, initErr, writes, files, search>>

\* Lines 217-218: currOffset += KeySize + ValueSize; Seek; next iteration.
SeekNext(c) ==
    /\ ~Crashed
    /\ get[c].pc = "seekNext"
    /\ LET f == get[c]
           fd == DataFd(c)
           h == DecodeHeader(f.currEntry)
           off == nextRecordOffset(f.currOffset, h)
       IN  /\ fds' = [fds EXCEPT ![fd].pos = seekStart(@, off)]
           /\ get' = Frames(c, [f EXCEPT !.pc = "readHeader", !.ios = @ + 1, !.currOffset = off,
                                         !.currEntry = <<>>],
                           f.t, TRUE)
    /\ UNCHANGED <<entries, sstTableCounter, bpc, tables, initErr, writes, files, search>>

----------------------------------------------------------------------------
(* A stand-alone call of getCandidateByteOffsetIndex on any ascending index. *)

SparseSlices ==
    {[i \in 1..Cardinality(S) |->
        [keySize |-> Len(SortedKeys(S)[i]), key |-> SortedKeys(S)[i], byteOffset |-> 20 * (i - 1)]] :
     S \in {T \in SUBSET Keys : Cardinality(T) <= MaxSparse}}

NoSearch == [pc |-> "none", sparseKeys |-> <<>>, targetKey |-> <<>>, index |-> 0,
             accessed |-> {}, panicked |-> FALSE]

Search ==
    /\ search.pc = "call"
    /\ LET r == getCandidateByteOffsetIndex(search.sparseKeys, search.targetKey)
       IN  search' = [search EXCEPT !.pc = IF r.panicked THEN "panicked" ELSE "returned",
                                    !.index = IF r.panicked THEN 0 ELSE r.index,
                                    !.accessed = r.accessed, !.panicked = r.panicked]
    /\ UNCHANGED <<entries, sstTableCounter, bpc, tables, initErr, writes, fds, files, get>>

----------------------------------------------------------------------------
(* Specifications. *)

InitProgram ==
    /\ sstTableCounter = 0
    /\ bpc = [g \in Builders |-> "start"]
    /\ tables = [g \in Builders |-> EmptyTable(0)]
    /\ initErr = [g \in Builders |-> "unset"]
    /\ writes = [g \in Builders |-> <<>>]
    /\ fds = <<>>
    /\ files = <<>>
    /\ get = [c \in Callers |-> IdleFrame]

Init ==
    /\ entries \in Batches
    /\ InitProgram
    /\ search = NoSearch

\* One goroutine: it builds a table, then looks keys up one call after the other.
Next ==
    \/ AddCounter(1)
    \/ NewTable(1)
    \/ \E fail \in CreateFailures : InitTableFiles(1, fail)
    \/ WriteEntries(1)
    \/ \E key \in ScanProbes : GetBegin(1, 1, key)
    \/ ReadHeader(1)
    \/ SeekBody(1)
    \/ ReadBody(1)
    \/ SeekNext(1)

Spec == Init /\ [][Next]_vars

\* Constructions running concurrently, one per goroutine.
NextBuild ==
    \E g \in Builders :
        \/ AddCounter(g)
        \/ NewTable(g)
        \/ \E fail \in CreateFailures : InitTableFiles(g, fail)
        \/ WriteEntries(g)

SpecBuild == Init /\ [][NextBuild]_vars

\* Constructions running one after another: a call starts only when no other call
\* is under way.
NoOtherCall(g) == \A h \in Builders \ {g} : bpc[h] \in {"start", "done"}

NextSeq ==
    \E g \in Builders :
        \/ NoOtherCall(g) /\ AddCounter(g)
        \/ NoOtherCall(g) /\ NewTable(g)
        \/ \E fail \in CreateFailures : NoOtherCall(g) /\ InitTableFiles(g, fail)
        \/ NoOtherCall(g) /\ WriteEntries(g)

SpecSeqBuild == Init /\ [][NextSeq]_vars

\* One table, each goroutine of Callers making one Get call, steps interleaved.
NextConc ==
    \/ AddCounter(1)
    \/ NewTable(1)
    \/ InitTableFiles(1, "none")
    \/ WriteEntries(1)
    \/ \E c \in Callers :
        \/ \E key \in Probes : get[c].pc = "idle" /\ GetBegin(c, 1, key)
        \/ ReadHeader(c)
        \/ SeekBody(c)
        \/ ReadBody(c)
        \/ SeekNext(c)

\* The batches of the concurrent lookups: "a" with an empty value followed by one more
\* record, and the three records "a", "ab" -> "xy", "c" of unequal sizes.
ConcBatches ==
    {b \in Batches :
        /\ b[1].Key = <<97>> /\ b[1].Value = <<>>
        /\ \/ Len(b) = 2
           \/ /\ Len(b) = 3
              /\ <<b[2].Key, b[3].Key>> = <<(<<97, 98>>), (<<99>>)>>
              /\ <<b[2].Value, b[3].Value>> = <<(<<120, 121>>), (<<>>)>>}

InitConc ==
    /\ entries \in ConcBatches
    /\ InitProgram
    /\ search = NoSearch

SpecConc == InitConc /\ [][NextConc]_vars

\* A data file cut short behind the program's back (a crash during the write, a
\* full disk, another process): the file of table t keeps its first n bytes.
Truncate(t, n) ==
    /\ ~Crashed
    /\ Built(t)
    /\ \A c \in Callers : get[c].pc = "idle"
    /\ LET fd == tables[t].dataFile
           name == FileName(fds[fd].id, fds[fd].ext)
       IN  /\ Len(files[name]) = tables[t].sizeInBytes
           /\ n < Len(files[name])
           /\ files' = [files EXCEPT ![name] = SubSeq(@, 1, n)]
    /\ UNCHANGED <<entries, sstTableCounter, bpc, tables, initErr, writes, fds, get, search>>

\* Keys "", "a", "ab", "c"; the probe "b" lies between them.
TruncKeys == {<<>>, <<97>>, <<97, 98>>, <<99>>}
TruncProbes == TruncKeys \cup {<<98>>}

InitTrunc ==
    /\ entries \in BatchesOver(TruncKeys, 2)
    /\ InitProgram
    /\ search = NoSearch

\* One table whose data file may be cut short at any byte before the lookups start.
NextTrunc ==
    \/ AddCounter(1)
    \/ NewTable(1)
    \/ InitTableFiles(1, "none")
    \/ WriteEntries(1)
    \/ \E n \in 0..(tables[1].sizeInBytes - 1) : Truncate(1, n)
    \/ \E key \in TruncProbes : GetBegin(1, 1, key)
    \/ ReadHeader(1)
    \/ SeekBody(1)
    \/ ReadBody(1)
    \/ SeekNext(1)

SpecTrunc == InitTrunc /\ [][NextTrunc]_vars

InitSearch ==
    /\ entries = CHOOSE b \in Batches : Len(b) = 1
    /\ InitProgram
    /\ search \in {[NoSearch EXCEPT !.pc = "call", !.sparseKeys = s, !.targetKey = k] :
                      s \in SparseSlices, k \in Probes}

NextSearch == Search

SpecSearch == InitSearch /\ [][NextSearch]_vars

----------------------------------------------------------------------------
(* What the batch says a lookup should give, read off the input alone. *)

KeysOf(rs) == {rs[i].Key : i \in 1..Len(rs)}

ValueOf(rs, k) == rs[CHOOSE i \in 1..Len(rs) : rs[i].Key = k].Value

Returned(c) == get[c].pc = "done"

BelowOrAbove(k) == StrLess(k, entries[1].Key) \/ StrLess(entries[Len(entries)].Key, k)

\* The result of a Get call that has the table to itself.
SoloResult(sst, k) ==
    IF BelowOrAbove(k) THEN [value |-> RangeRejectValue, err |-> ErrKeyNotWithinTable]
    ELSE IF k \in KeysOf(entries) THEN [value |-> ValueOf(entries, k), err |-> "nil"]
    ELSE [value |-> <<>>, err |-> ErrKeyNotWithinTable]

----------------------------------------------------------------------------
(* Properties. *)

\* C1: on a table built from the batch, Get(k) for every key k of the batch returns
\* the value stored with k and a nil error, wherever earlier Get calls left the cursor
\* of the data file.
C1_GetReturnsStoredValue ==
    \A c \in Callers :
        (Returned(c) /\ get[c].key \in KeysOf(entries))
            => get[c].ret = [value |-> ValueOf(entries, get[c].key), err |-> "nil"]

\* A hit in the region of a later sparse entry, found by scanning past one record,
\* in a call that started with the cursor left mid-file by an earlier call.
C1_Witness ==
    \E c \in Callers :
        /\ Returned(c) /\ get[c].ret.err = "nil"
        /\ Len(get[c].scanned) = 2
        /\ Len(tables[1].sparseKeys) >= 2
        /\ ~StrLess(get[c].key, At(tables[1].sparseKeys, 1).key)
        /\ get[c].pos0 > 0
        /\ get[c].pos0 < Len(DataContent(tables[1].dataFile))

\* C2: tables under construction at the same time never share a table id (and so
\* never share file names).
C2_DistinctTableIds ==
    \A g, h \in Builders :
        (g # h /\ bpc[g] \notin {"start", "added"} /\ bpc[h] \notin {"start", "added"})
            => tables[g].sstCounter # tables[h].sstCounter

\* C3: when creating the data, index or bloom file failed, the construction attempts
\* no write and hands the error to the caller of InitSSTableOnDisk.
C3_CreateFailureAborts ==
    \A g \in Builders :
        (initErr[g] \in {"data", "index", "bloom"} /\ bpc[g] \in {"done", "panicked"})
            => (writes[g] = <<>> /\ bpc[g] = "done" /\ returnedErr(g) = initErr[g])

\* C4: a key inside [minKey, maxKey] that passes the bloom filter and is absent gets
\* the NotFound outcome, and the scan stops at the first record with a greater key.
C4_OvershootIsNotFound ==
    \A c \in Callers :
        (/\ Returned(c)
         /\ ~outOfRange(tables[get[c].t], get[c].key)
         /\ MightContain(tables[get[c].t].bloomFilter, get[c].key)
         /\ get[c].key \notin KeysOf(entries))
            => /\ get[c].ret.err = ErrKeyNotFound
               /\ get[c].scanned # <<>>
               /\ \A i \in 1..Len(get[c].scanned) :
                      IF i = Len(get[c].scanned)
                      THEN StrLess(get[c].key, get[c].scanned[i])
                      ELSE StrLess(get[c].scanned[i], get[c].key)

\* C5 as claimed: whatever the interleaving of two Get calls on one table, each
\* returns what it returns when run alone.
C5_ConcurrentGetSameAsAlone ==
    \A c \in Callers : Returned(c) => get[c].ret = SoloResult(tables[get[c].t], get[c].key)

\* C5 as amended: a Get call during whose scan no other call touched the data-file
\* handle returns what it returns when run alone.
C5_SerializedGetSameAsAlone ==
    \A c \in Callers :
        (Returned(c) /\ ~get[c].disturbed)
            => get[c].ret = SoloResult(tables[get[c].t], get[c].key)

\* An undisturbed scan of two records that began after the other call had moved the
\* cursor, the other call being still in its scan or done.
C5_Witness ==
    \E c, d \in Callers :
        /\ c # d
        /\ Returned(c) /\ ~get[c].disturbed /\ Len(get[c].scanned) = 2
        /\ get[c].pos0 # Len(DataContent(tables[1].dataFile))
        /\ get[d].pc # "idle" /\ get[d].ios > 0

\* C6: a key below minKey or above maxKey is answered ErrKeyNotWithinTable with no
\* Seek or Read on the data file, whose cursor stays where it was.
C6_RangeRejection ==
    \A c \in Callers :
        (Returned(c) /\ (StrLess(get[c].key, tables[get[c].t].minKey)
                         \/ StrLess(tables[get[c].t].maxKey, get[c].key)))
            => /\ get[c].ret.err = ErrKeyNotWithinTable
               /\ get[c].ios = 0
               /\ fds[tables[get[c].t].dataFile].pos = get[c].pos0

\* A rejected key above maxKey, the cursor having been left mid-file before.
C6_Witness ==
    \E c \in Callers :
        /\ Returned(c) /\ StrLess(tables[get[c].t].maxKey, get[c].key)
        /\ get[c].ret.err = ErrKeyNotWithinTable
        /\ get[c].pos0 > 0 /\ get[c].pos0 < Len(DataContent(tables[1].dataFile))

\* C7: a key inside [minKey, maxKey] that the bloom filter rules out is answered
\* ErrKeyNotWithinTable without a search of the sparse index and without a Seek or
\* Read on the data file.
C7_BloomRejection ==
    \A c \in Callers :
        (/\ Returned(c)
         /\ ~StrLess(get[c].key, tables[get[c].t].minKey)
         /\ ~StrLess(tables[get[c].t].maxKey, get[c].key)
         /\ ~MightContain(tables[get[c].t].bloomFilter, get[c].key))
            => /\ get[c].ret.err = ErrKeyNotWithinTable
               /\ ~get[c].searched
               /\ get[c].ios = 0
               /\ fds[tables[get[c].t].dataFile].pos = get[c].pos0

C7_Witness ==
    \E c \in Callers :
        /\ Returned(c)
        /\ ~StrLess(get[c].key, tables[get[c].t].minKey)
        /\ ~StrLess(tables[get[c].t].maxKey, get[c].key)
        /\ ~MightContain(tables[get[c].t].bloomFilter, get[c].key)
        /\ get[c].ret = [value |-> <<>>, err |-> ErrKeyNotWithinTable]

BelowAllSparse ==
    \A i \in 1..Len(search.sparseKeys) : StrLess(search.targetKey, search.sparseKeys[i].key)

\* C8: with the target below every sparse key (or the index empty) the search ends
\* in an explicit "no candidate" (-1) and subscripts sparseKeys only inside
\* 0 .. len(sparseKeys)-1.
C8_NoCandidateBelowAll ==
    (search.pc \in {"returned", "panicked"} /\ BelowAllSparse)
        => /\ search.pc = "returned"
           /\ search.index = -1
           /\ search.accessed \subseteq 0..(Len(search.sparseKeys) - 1)

\* The index of the entry with the largest key not above the target.
PredecessorIndex(sparseKeys, targetKey) ==
    CHOOSE i \in 0..(Len(sparseKeys) - 1) :
        /\ ~StrLess(targetKey, At(sparseKeys, i).key)
        /\ \A j \in 0..(Len(sparseKeys) - 1) :
               ~StrLess(targetKey, At(sparseKeys, j).key) => j <= i

\* C9: on an ascending sparse index and a target not below its first key, the search
\* returns the index of the entry equal to the target if there is one, and else that
\* of the entry with the largest key below the target.
C9_PredecessorIndex ==
    (/\ search.pc \in {"returned", "panicked"}
     /\ search.sparseKeys # <<>>
     /\ ~StrLess(search.targetKey, search.sparseKeys[1].key))
        => /\ search.pc = "returned"
           /\ search.index = PredecessorIndex(search.sparseKeys, search.targetKey)
           /\ StrCompare(At(search.sparseKeys, search.index).key, search.targetKey) <= 0
           /\ (\E i \in 1..Len(search.sparseKeys) : search.sparseKeys[i].key = search.targetKey)
                  => At(search.sparseKeys, search.index).key = search.targetKey

\* A search without exact match that ends on the middle entry of three.
C9_Witness ==
    /\ search.pc = "returned"
    /\ Len(search.sparseKeys) = 3
    /\ search.index = 1
    /\ At(search.sparseKeys, 1).key # search.targetKey

\* C10: after a construction from n records the sparse index has ceil(n/N) entries,
\* entry j holds the key of record j*N, entry 0 has byteOffset 0 and the key minKey,
\* and the keys ascend strictly.
C10_SparseIndexCoverage ==
    \A t \in Builders :
        Built(t) =>
            LET sk == tables[t].sparseKeys
                n == Len(entries)
            IN  /\ Len(sk) = (n + SparseIndexSampleSize - 1) \div SparseIndexSampleSize
                /\ \A j \in 0..(Len(sk) - 1) :
                       At(sk, j).key = At(entries, j * SparseIndexSampleSize).Key
                /\ At(sk, 0).byteOffset = 0
                /\ At(sk, 0).key = tables[t].minKey
                /\ \A j \in 1..(Len(sk) - 1) : StrLess(At(sk, j - 1).key, At(sk, j).key)

\* A table of at least two sparse entries whose batch length is no multiple of N.
C10_Witness ==
    /\ Built(1)
    /\ Len(tables[1].sparseKeys) >= 2
    /\ Len(entries) % SparseIndexSampleSize # 0

Last(s) == s[Len(s)]

----------------------------------------------------------------------------
(* Record boundaries of the data file, read off the batch alone. *)

EncodedSize(r) == headerSize + Len(r.Key) + Len(r.Value)

RECURSIVE PrefixSize(_, _)
PrefixSize(rs, j) == IF j = 0 THEN 0 ELSE PrefixSize(rs, j - 1) + EncodedSize(rs[j])

\* The byte positions at which a record of the batch begins, and the end of the last.
RecordBoundaries(rs) == {PrefixSize(rs, j) : j \in 0..Len(rs)}

NextBoundary(rs, o) ==
    CHOOSE b \in RecordBoundaries(rs) :
        b > o /\ \A x \in RecordBoundaries(rs) : x > o => b <= x

\* C11: in the scan loop of Get every iteration reads a whole header and a whole
\* record and then returns a match, returns on overshoot, or moves the read offset
\* forward past exactly that record; the offset grows with every step and stays
\* within the data file.  (With a finite file this bounds the number of iterations.)
C11_ScanAdvances ==
    [][\A c \in Callers :
          LET f == get[c]
              g == get'[c]
              size == Len(DataContent(DataFd(c)))
          IN  /\ (f.pc = "readHeader" /\ g # f) => g.pc = "seekBody"
              /\ (f.pc = "seekBody" /\ g # f)
                    => g.currOffset = f.currOffset + headerSize /\ g.currOffset <= size
              /\ (f.pc = "readBody" /\ g # f)
                    => \/ g.pc = "done" /\ g.ret.err = "nil" /\ Last(g.scanned) = f.key
                       \/ g.pc = "done" /\ g.ret.err = ErrKeyNotWithinTable
                             /\ StrLess(f.key, Last(g.scanned))
                       \/ g.pc = "seekNext" /\ StrLess(Last(g.scanned), f.key)
              /\ (f.pc = "seekNext" /\ g # f)
                    => /\ g.pc = "readHeader"
                       /\ g.currOffset > f.currOffset - headerSize
                       /\ f.currOffset - headerSize \in RecordBoundaries(entries)
                       /\ g.currOffset = NextBoundary(entries, f.currOffset - headerSize)
                       /\ g.currOffset <= size
                       /\ Len(g.scanned) <= Len(entries)]_vars

\* A scan about to start its second iteration.
C11_Witness ==
    \E c \in Callers :
        /\ get[c].pc = "readHeader"
        /\ Len(get[c].scanned) >= 1
        /\ get[c].currOffset = PrefixSize(entries, Len(get[c].scanned))
        /\ get[c].currOffset > 0

\* A call that returned out of the header read, which it does only at the end of
\* the file: the header read is the 2nd, 6th, 10th, ... operation on the file.
EndOfFileAtHeader(c) == Returned(c) /\ get[c].ios % 4 = 2

\* C12: a scan that reaches the end of the data file before any record with a key
\* equal to or above the target returns the NotFound outcome.
C12_EndOfFileIsNotFound ==
    \A c \in Callers :
        (EndOfFileAtHeader(c) /\ \A i \in 1..Len(get[c].scanned) : StrLess(get[c].scanned[i], get[c].key))
            => get[c].ret.err = ErrKeyNotFound

----------------------------------------------------------------------------
\* The handles InitTableFiles of builder g has opened so far.
HandlesOf(g) == {FdOf(g, k) : k \in 1..3} \cap DOMAIN fds

\* C13: when the creation of the index file or of the bloom file fails, the
\* handles InitTableFiles opened before the failure are closed when it returns and
\* the table's dataFile, indexFile and bloomFilter stay unset: no handle of the
\* failed table is open.
C13_FailedCreateClosesHandles ==
    \A g \in Builders :
        initErr[g] \in {"index", "bloom"} =>
            /\ FdOf(g, 1) \in HandlesOf(g)
            /\ (initErr[g] = "bloom") = (FdOf(g, 2) \in HandlesOf(g))
            /\ FdOf(g, 3) \notin HandlesOf(g)
            /\ \A fd \in HandlesOf(g) : ~fds[fd].open
            /\ tables[g].dataFile = 0
            /\ tables[g].indexFile = 0
            /\ tables[g].bloomFilter = NilBloom

C13_Witness ==
    \E g \in Builders :
        /\ initErr[g] = "bloom"
        /\ HandlesOf(g) = {FdOf(g, 1), FdOf(g, 2)}
        /\ \A fd \in HandlesOf(g) : ~fds[fd].open

----------------------------------------------------------------------------
\* C14: every InitSSTableOnDisk call raises the process-wide counter by exactly one
\* (nothing else changes it, and a failed file creation does not undo it); when the
\* calls run one after another a table's id is the counter value its own increment
\* left, which is above the id of every table constructed before.
C14_SequentialIdsIncrease ==
    [][/\ sstTableCounter' # sstTableCounter =>
            /\ sstTableCounter' = sstTableCounter + 1
            /\ Cardinality({g \in Builders : bpc[g] = "start" /\ bpc'[g] = "added"}) = 1
       /\ \A g \in Builders :
            /\ (bpc[g] = "start" /\ bpc'[g] # "start") =>
                    bpc'[g] = "added" /\ sstTableCounter' = sstTableCounter + 1
            /\ (bpc[g] # "start") => bpc'[g] # "start"
            /\ (bpc[g] = "added" /\ bpc'[g] = "init") =>
                    /\ tables'[g].sstCounter = sstTableCounter
                    /\ \A h \in Builders : bpc[h] = "done" => tables[h].sstCounter < tables'[g].sstCounter
            /\ (bpc[g] \notin {"start", "added"}) => tables'[g].sstCounter = tables[g].sstCounter
      ]_vars

C14_Witness ==
    \E g, h \in Builders :
        /\ Built(g) /\ Built(h)
        /\ tables[g].sstCounter = 1 /\ tables[h].sstCounter = 2
        /\ sstTableCounter = 2

----------------------------------------------------------------------------
\* The position of the record with key k in the batch rs.
IndexOfKey(rs, k) == CHOOSE i \in 1..Len(rs) : rs[i].Key = k

\* C15: sparse entry j carries as byteOffset the sum of the encoded sizes
\* (17 + KeySize + ValueSize) of records 0 .. j*N-1, and record j*N's header and body
\* are the bytes of the data file from there on; a scan that is about to read a
\* header stands at a sparse offset or right behind the record it decoded last, so
\* the offsets of Build and the offsets of Get's scan name the same record boundaries.
C15_OffsetsAreRecordBoundaries ==
    \A t \in Builders :
        Built(t) =>
            LET sk == tables[t].sparseKeys
                data == DataContent(tables[t].dataFile)
            IN  /\ \A j \in 0..(Len(sk) - 1) :
                    LET r == At(entries, j * SparseIndexSampleSize)
                        off == At(sk, j).byteOffset
                    IN  /\ off = PrefixSize(entries, j * SparseIndexSampleSize)
                        /\ off + EncodedSize(r) <= Len(data)
                        /\ SubSeq(data, off + 1, off + EncodedSize(r)) = EncodeKV(r)
                /\ tables[t].sizeInBytes = PrefixSize(entries, Len(entries))
                /\ Len(data) = PrefixSize(entries, Len(entries))
                /\ \A c \in Callers :
                    (get[c].t = t /\ get[c].pc = "readHeader") =>
                        IF get[c].scanned = <<>>
                        THEN \E j \in 0..(Len(sk) - 1) : get[c].currOffset = At(sk, j).byteOffset
                        ELSE get[c].currOffset =
                                PrefixSize(entries, IndexOfKey(entries, Last(get[c].scanned)))

\* A scan that started at the second sparse entry and moved on past one record.
C15_Witness ==
    \E c \in Callers :
        /\ get[c].pc = "readHeader"
        /\ get[c].t = 1 /\ Built(1)
        /\ Len(tables[1].sparseKeys) >= 2
        /\ Len(get[c].scanned) = 1
        /\ get[c].currOffset > At(tables[1].sparseKeys, 1).byteOffset
        /\ At(tables[1].sparseKeys, 1).byteOffset > 0

----------------------------------------------------------------------------
\* C16: a Get for a key of the table starts its scan at a sparse entry at or before
\* the key's record, fewer than SparseIndexSampleSize records before it, and so
\* decodes at most SparseIndexSampleSize records; a Get for any key decodes at most
\* SparseIndexSampleSize + 1 records.
C16_BoundedScan ==
    \A c \in Callers :
        (get[c].pc # "idle" /\ Built(get[c].t)) =>
            LET f == get[c]
                sk == tables[f.t].sparseKeys
            IN  /\ Len(f.scanned) <= SparseIndexSampleSize + 1
                /\ f.key \in KeysOf(entries) => Len(f.scanned) <= SparseIndexSampleSize
                /\ f.scanned # <<>> =>
                    /\ \E j \in 0..(Len(sk) - 1) : At(sk, j).key = f.scanned[1]
                    /\ ~StrLess(f.key, f.scanned[1])
                    /\ f.key \in KeysOf(entries) =>
                          /\ IndexOfKey(entries, f.scanned[1]) <= IndexOfKey(entries, f.key)
                          /\ IndexOfKey(entries, f.key) - IndexOfKey(entries, f.scanned[1])
                                < SparseIndexSampleSize

\* A lookup of an absent key that decoded a whole region and the record behind it.
C16_Witness ==
    \E c \in Callers :
        /\ Returned(c)
        /\ get[c].key \notin KeysOf(entries)
        /\ Len(get[c].scanned) = SparseIndexSampleSize + 1

----------------------------------------------------------------------------
\* C17: on a data file cut short at any byte, Get goes on past a header read only
\* when the read delivered all 17 bytes, and a call that returns without an error
\* returns the value stored under its key: a short read ends the call with an error.
C17_ShortReadAborts ==
    \A c \in Callers :
        /\ get[c].pc = "seekBody" => fds[DataFd(c)].pos = get[c].currOffset + headerSize
        /\ (Returned(c) /\ get[c].ret.err = "nil") =>
              /\ get[c].key \in KeysOf(entries)
              /\ get[c].ret.value = ValueOf(entries, get[c].key)

----------------------------------------------------------------------------
\* C18: in a Get on a built table the sparse index search is never run with a
\* target below every sparse key (the range check admits only key >= minKey, and
\* minKey is the key of sparse entry 0), so the index it returns and every index
\* it subscripts sparseKeys with lie within 0 .. len(sparseKeys) - 1.
C18_CandidateIndexInRange ==
    \A c \in Callers :
        get[c].searched =>
            LET sk == tables[get[c].t].sparseKeys
                cand == getCandidateByteOffsetIndex(sk, get[c].key)
            IN  /\ get[c].pc # "panicked"
                /\ Len(sk) >= 1
                /\ At(sk, 0).key = tables[get[c].t].minKey
                /\ ~StrLess(get[c].key, At(sk, 0).key)
                /\ ~cand.panicked
                /\ cand.index \in 0..(Len(sk) - 1)
                /\ cand.accessed \subseteq 0..(Len(sk) - 1)

\* A search that ran out without an exact match and fell back on entry 0 of several.
C18_Witness ==
    \E c \in Callers :
        LET sk == tables[get[c].t].sparseKeys
        IN  /\ get[c].searched
            /\ Len(sk) >= 2
            /\ \A j \in 0..(Len(sk) - 1) : At(sk, j).key # get[c].key
            /\ getCandidateByteOffsetIndex(sk, get[c].key).index = 0

----------------------------------------------------------------------------
\* C19: on a table whose data file holds the whole batch, a Get that passed the
\* range check and the bloom filter never reads past the last record: every header
\* read starts at a record inside the file, every scan ends with a match or with a
\* greater key, and neither an end-of-file error nor ErrKeyNotFound is returned.
C19_NoReadPastLastRecord ==
    \A c \in Callers :
        (get[c].pc # "idle" /\ Built(get[c].t)) =>
            LET f == get[c]
                size == Len(DataContent(DataFd(c)))
            IN  /\ size = PrefixSize(entries, Len(entries))
                /\ f.ret.err \notin {"EOF", "ErrUnexpectedEOF", ErrKeyNotFound}
                /\ f.pc = "readHeader" => f.currOffset + headerSize <= size
                /\ f.pc = "seekNext" => StrLess(Last(f.scanned), Last(entries).Key)
                /\ fds[DataFd(c)].pos <= size
                /\ (Returned(c) /\ f.searched) =>
                      /\ f.scanned # <<>>
                      /\ \/ f.ret.err = "nil" /\ Last(f.scanned) = f.key
                         \/ f.ret.err = ErrKeyNotWithinTable /\ StrLess(f.key, Last(f.scanned))

\* A lookup of maxKey that scanned up to the last byte of the file.
C19_Witness ==
    \E c \in Callers :
        /\ Returned(c) /\ get[c].ret.err = "nil"
        /\ get[c].key = Last(entries).Key
        /\ Len(get[c].scanned) >= 2
        /\ fds[DataFd(c)].pos = Len(DataContent(DataFd(c)))

====
